---- MODULE Spec2Model ----
(***************************************************************************)
(* CalcBurst: the calculation request handler                              *)
(* (src/lambda/calculation_handler.py) as a state machine.                 *)
(*                                                                         *)
(* Python values are tagged records, so that a string, a number, a list    *)
(* and None can be compared.  Numbers are exact rationals n/d in lowest    *)
(* terms (d > 0): int and float arithmetic is modelled exactly, float      *)
(* rounding is not modelled.  A power with a fractional exponent is kept   *)
(* symbolic: a float for a non-negative base, a complex for a negative one.*)
(***************************************************************************)
EXTENDS Integers, Sequences, FiniteSets, TLC

\* ------------------------------------------------------------------ bounds
MaxLen == 2          \* longest operand list of a request
MaxTime == 1         \* the clock runs from 0 to MaxTime milliseconds
EngineMaxLen == 3    \* longest operand list of a direct call of perform_calculation
MaxRuns == 2         \* runs of the metrics exporter in one process
MaxInvocations == 2  \* handler invocations that may run concurrently

\* ------------------------------------------------------------ Python values
None == [t |-> "none"]
Absent == [t |-> "absent"]
Str(s) == [t |-> "str", s |-> s]
List(v) == [t |-> "list", v |-> v]

Abs(x) == IF x < 0 THEN -x ELSE x

RECURSIVE GCD(_, _)
GCD(a, b) == IF b = 0 THEN a ELSE GCD(b, a % b)

Num(n, d) ==
    LET s == IF d < 0 THEN -1 ELSE 1
        g == GCD(Abs(n), Abs(d))
    IN  [t |-> "num", n |-> (s * n) \div g, d |-> (s * d) \div g]

IntNum(i) == Num(i, 1)

IsZero(a) == a.n = 0
IsIntegral(a) == a.d = 1

PyAdd(a, b) == Num(a.n * b.d + b.n * a.d, a.d * b.d)
PySub(a, b) == Num(a.n * b.d - b.n * a.d, a.d * b.d)
PyMul(a, b) == Num(a.n * b.n, a.d * b.d)
PyTrueDiv(a, b) == Num(a.n * b.d, a.d * b.n)
Floor(a) == IntNum(a.n \div a.d)

\* What a call gives: a value, or an exception of a class with its str().
Return(v) == [exc |-> "none", val |-> v, msg |-> ""]
Raise(cls, msg) == [exc |-> cls, val |-> None, msg |-> msg]

\* operands[0] % operands[1]
PyMod(a, b) ==
    IF IsZero(b) THEN Raise("ZeroDivisionError", "modulo by zero")
    ELSE Return(PySub(a, PyMul(b, Floor(PyTrueDiv(a, b)))))

RECURSIVE IntPow(_, _)
IntPow(a, k) == IF k = 0 THEN IntNum(1) ELSE PyMul(a, IntPow(a, k - 1))

\* operands[0] ** operands[1]
PyPow(a, b) ==
    IF IsIntegral(b)
    THEN IF b.n >= 0 THEN Return(IntPow(a, b.n))
         ELSE IF IsZero(a)
              THEN Raise("ZeroDivisionError", "0.0 cannot be raised to a negative power")
              ELSE Return(IntPow(PyTrueDiv(IntNum(1), a), -b.n))
    ELSE IF IsZero(a)
         THEN IF b.n > 0 THEN Return(IntNum(0))
              ELSE Raise("ZeroDivisionError", "0.0 cannot be raised to a negative power")
         ELSE IF a.n > 0
              THEN Return([t |-> "float", base |-> a, exp |-> b])
              ELSE Return([t |-> "complex", base |-> a, exp |-> b])

\* ------------------------------------------------------ perform_calculation
RECURSIVE AddLoop(_, _)
AddLoop(result, nums) ==
    IF nums = <<>> THEN Return(result)
    ELSE AddLoop(PyAdd(result, Head(nums)), Tail(nums))

\* Mutant: the subtraction folds from the right, a - (b - c).
RECURSIVE SubtractLoop_RightFold(_, _)
SubtractLoop_RightFold(result, nums) ==
    IF nums = <<>> THEN Return(result)
    ELSE Return(PySub(result, SubtractLoop_RightFold(Head(nums), Tail(nums)).val))

RECURSIVE SubtractLoop(_, _)
SubtractLoop(result, nums) ==
    IF nums = <<>> THEN Return(result)
    ELSE SubtractLoop(PySub(result, Head(nums)), Tail(nums))

RECURSIVE MultiplyLoop(_, _)
MultiplyLoop(result, nums) ==
    IF nums = <<>> THEN Return(result)
    ELSE MultiplyLoop(PyMul(result, Head(nums)), Tail(nums))

\* Mutant: at a zero divisor the loop stops and the quotient so far is returned.
RECURSIVE DivideLoop_ReturnsPartial(_, _)
DivideLoop_ReturnsPartial(result, nums) ==
    IF nums = <<>> THEN Return(result)
    ELSE IF IsZero(Head(nums)) THEN Return(result)
         ELSE DivideLoop_ReturnsPartial(PyTrueDiv(result, Head(nums)), Tail(nums))

RECURSIVE DivideLoop(_, _)
DivideLoop(result, nums) ==
    IF nums = <<>> THEN Return(result)
    ELSE IF IsZero(Head(nums)) THEN Raise("ValueError", "Division by zero")
         ELSE DivideLoop(PyTrueDiv(result, Head(nums)), Tail(nums))

\* f"{operation}"
OperationName(operation) == IF operation.t = "str" THEN operation.s ELSE "None"

\* Mutant: the final else branch is missing, so an unknown operation returns
\* operands[0].
perform_calculation_NoElse(operation, operands) ==
    IF Len(operands.v) < 2
    THEN Raise("ValueError", "At least two operands required")
    ELSE LET xs == operands.v IN
         CASE operation = Str("add") -> AddLoop(xs[1], Tail(xs))
           [] operation = Str("subtract") -> SubtractLoop(xs[1], Tail(xs))
           [] operation = Str("multiply") -> MultiplyLoop(xs[1], Tail(xs))
           [] operation = Str("divide") -> DivideLoop(xs[1], Tail(xs))
           [] operation = Str("power") -> PyPow(xs[1], xs[2])
           [] operation = Str("modulo") -> PyMod(xs[1], xs[2])
           [] OTHER -> Return(xs[1])

\* Mutant: power and modulo refuse a third operand.
perform_calculation_RejectsExtra(operation, operands) ==
    IF Len(operands.v) < 2
    THEN Raise("ValueError", "At least two operands required")
    ELSE LET xs == operands.v IN
         CASE operation = Str("add") -> AddLoop(xs[1], Tail(xs))
           [] operation = Str("subtract") -> SubtractLoop(xs[1], Tail(xs))
           [] operation = Str("multiply") -> MultiplyLoop(xs[1], Tail(xs))
           [] operation = Str("divide") -> DivideLoop(xs[1], Tail(xs))
           [] operation \in {Str("power"), Str("modulo")} /\ Len(xs) > 2 ->
                Raise("ValueError", "Exactly two operands required")
           [] operation = Str("power") -> PyPow(xs[1], xs[2])
           [] operation = Str("modulo") -> PyMod(xs[1], xs[2])
           [] OTHER -> Raise("ValueError", "Unsupported operation: " \o OperationName(operation))

\* Mutant: the operation name is looked at before the operands are counted.
perform_calculation_NameFirst(operation, operands) ==
    LET xs == operands.v IN
    CASE operation \notin {Str("add"), Str("subtract"), Str("multiply"), Str("divide"),
                           Str("power"), Str("modulo")} ->
            Raise("ValueError", "Unsupported operation: " \o OperationName(operation))
      [] Len(xs) < 2 -> Raise("ValueError", "At least two operands required")
      [] operation = Str("add") -> AddLoop(xs[1], Tail(xs))
      [] operation = Str("subtract") -> SubtractLoop(xs[1], Tail(xs))
      [] operation = Str("multiply") -> MultiplyLoop(xs[1], Tail(xs))
      [] operation = Str("divide") -> DivideLoop(xs[1], Tail(xs))
      [] operation = Str("power") -> PyPow(xs[1], xs[2])
      [] OTHER -> PyMod(xs[1], xs[2])

\* lines 31-62
perform_calculation(operation, operands) ==
    IF Len(operands.v) < 2
    THEN Raise("ValueError", "At least two operands required")
    ELSE LET xs == operands.v IN
         CASE operation = Str("add") -> AddLoop(xs[1], Tail(xs))
           [] operation = Str("subtract") -> SubtractLoop(xs[1], Tail(xs))
           [] operation = Str("multiply") -> MultiplyLoop(xs[1], Tail(xs))
           [] operation = Str("divide") -> DivideLoop(xs[1], Tail(xs))
           [] operation = Str("power") -> PyPow(xs[1], xs[2])
           [] operation = Str("modulo") -> PyMod(xs[1], xs[2])
           [] OTHER -> Raise("ValueError", "Unsupported operation: " \o OperationName(operation))

\* ------------------------------------------------------------------ events
\* What the handler reads from a dict: body.get(key, default).
Get(dict, key, default) == IF dict[key] = Absent THEN default ELSE dict[key]

\* Python truthiness: "not x" holds of None, "", [] and 0.
Falsy(x) ==
    \/ x = None
    \/ x = Str("")
    \/ x = List(<<>>)
    \/ (x.t = "num" /\ IsZero(x))

Operations ==
    {Str("add"), Str("subtract"), Str("multiply"), Str("divide"), Str("power"), Str("modulo")}

Numbers == {IntNum(-1), IntNum(0), IntNum(2), Num(1, 2)}

OperandLists == UNION {[1..n -> Numbers] : n \in 0..MaxLen}

Payloads ==
    [operation : Operations \cup {Absent, Str(""), Str("unknown")},
     operands : {List(v) : v \in OperandLists} \cup {Absent},
     id : {Absent, Str("id-1")}]

\* An event whose body is the JSON text of a payload, one whose body is not JSON
\* (json.loads raises JSONDecodeError, a ValueError), and one whose body is null
\* (json.loads raises TypeError).
Events ==
    {[kind |-> "json", payload |-> b] : b \in Payloads}
        \cup {[kind |-> "malformed"], [kind |-> "null"]}

\* ------------------------------------------------------------------- state
VARIABLES
    now,                 \* time.time() in milliseconds
    REQUEST_COUNT,       \* Counter calcburst_requests_total
    REQUEST_LATENCY,     \* Histogram: number and sum of the observations
    CALCULATION_ERRORS,  \* Counter calcburst_errors_total
    ACTIVE_REQUESTS,     \* Gauge calcburst_active_requests
    table,               \* the DynamoDB table: a set of items, one per calculation_id
    pc,                  \* pc[i]: where invocation i of lambda_handler stands
    event,               \* event[i]: the event invocation i was called with
    frame,               \* frame[i]: the local variables of invocation i
    exc,                 \* exc[i]: the exception raised to invocation i's try block
    response,            \* response[i]: what invocation i returns
    calls,               \* calls[i]: the calls invocation i made, in order
    exporter             \* the metrics exporter's process (metrics_exporter.py)

vars == <<now, REQUEST_COUNT, REQUEST_LATENCY, CALCULATION_ERRORS, ACTIVE_REQUESTS,
          table, pc, event, frame, exc, response, calls, exporter>>

metrics == <<REQUEST_COUNT, REQUEST_LATENCY, CALCULATION_ERRORS, ACTIVE_REQUESTS>>

Invocations == 1..MaxInvocations

NoException == Return(None)

NoFrame ==
    [start_time |-> 0, operation |-> None, operands |-> None, calc_id |-> None,
     result |-> None, execution_time |-> 0]

\* metrics_exporter.py: the keys of the metrics dict, one for each CloudWatch
\* series, in the order get_cloudwatch_metrics queries them.
MetricKeys == <<"invocations", "errors", "duration", "api_requests">>

\* lines 109-116: the gauge a key of metrics is written to
GaugeOf(key) ==
    CASE key = "invocations" -> "calcburst_lambda_invocations"
      [] key = "errors" -> "calcburst_lambda_errors"
      [] key = "duration" -> "calcburst_lambda_duration_ms"
      [] key = "api_requests" -> "calcburst_api_requests"

\* lines 17-24: the gauges registered in the registry
RegisteredGauges ==
    {"calcburst_lambda_invocations", "calcburst_lambda_errors",
     "calcburst_lambda_duration_ms", "calcburst_dynamodb_consumed_capacity",
     "calcburst_api_requests"}

\* The exporter's process after import: every gauge of the registry is 0, nothing
\* has been pushed.  at: where the run stands; metrics: the dict the run builds;
\* log: what each CloudWatch query and the push of the run gave; gateway: the
\* group last pushed to the push gateway; response: what the run returned.
ExporterInit ==
    [at |-> "idle",
     runs |-> 0,
     metrics |-> <<>>,
     log |-> <<>>,
     registry |-> [g \in RegisteredGauges |-> 0],
     gateway |-> None,
     response |-> None]

Init ==
    /\ now = 0
    /\ REQUEST_COUNT = 0
    /\ REQUEST_LATENCY = [count |-> 0, sum |-> 0]
    /\ CALCULATION_ERRORS = 0
    /\ ACTIVE_REQUESTS = 0
    /\ table = {}
    /\ pc = [i \in Invocations |-> "idle"]
    /\ event = [i \in Invocations |-> None]
    /\ frame = [i \in Invocations |-> NoFrame]
    /\ exc = [i \in Invocations |-> NoException]
    /\ response = [i \in Invocations |-> None]
    /\ calls = [i \in Invocations |-> <<>>]
    /\ exporter = ExporterInit

\* The clock advances between any two steps.
Tick ==
    /\ now < MaxTime
    /\ now' = now + 1
    /\ UNCHANGED <<exporter, metrics, table, pc, event, frame, exc, response,
                   calls>>

\* --------------------------------------------------------- store_calculation
\* Decimal(str(x)): the decimal of a number's text; the text of a complex number
\* is no decimal (decimal.InvalidOperation).
DecimalOfStr(x) ==
    CASE x.t = "num" -> Return([t |-> "decimal", n |-> x.n, d |-> x.d])
      [] x.t = "float" -> Return([t |-> "decimal", base |-> x.base, exp |-> x.exp])
      [] OTHER -> Raise("InvalidOperation", "ConversionSyntax")

TTL_SECONDS == 2592000

Item(calc_id, operation, operands, result, execution_time) ==
    [calculation_id |-> calc_id,
     operation |-> operation,
     operands |-> [k \in DOMAIN operands.v |-> DecimalOfStr(operands.v[k]).val],
     result |-> DecimalOfStr(result).val,
     timestamp |-> now,
     execution_time_ms |-> DecimalOfStr(IntNum(execution_time)).val,
     ttl |-> (now \div 1000) + TTL_SECONDS]

\* table.put_item(Item=item): the item replaces the one of the same key.
PutItem(t, item) ==
    {old \in t : old.calculation_id # item.calculation_id} \cup {item}

\* Mutant: no try/except around the write, so a refused write raises to the caller.
store_calculation_Raises(calc_id, operation, operands, result, execution_time, put_ok) ==
    LET built == /\ \A k \in DOMAIN operands.v : DecimalOfStr(operands.v[k]).exc = "none"
                 /\ DecimalOfStr(result).exc = "none"
        item == Item(calc_id, operation, operands, result, execution_time)
    IN  IF built /\ put_ok
        THEN [table |-> PutItem(table, item), put |-> TRUE, errors |-> 0,
              exc |-> "none", ret |-> TRUE]
        ELSE [table |-> table, put |-> built, errors |-> 0,
              exc |-> "ClientError", ret |-> FALSE]

\* What store_calculation does when the backend accepts (put_ok) or refuses the
\* write: the table after it, whether put_item was called, the growth of the error
\* counter, and what comes back to the caller (exc is "none": it returns True or
\* False).
store_calculation(calc_id, operation, operands, result, execution_time, put_ok) ==
    LET built == /\ \A k \in DOMAIN operands.v : DecimalOfStr(operands.v[k]).exc = "none"
                 /\ DecimalOfStr(result).exc = "none"
        item == Item(calc_id, operation, operands, result, execution_time)
    IN  IF built /\ put_ok
        THEN [table |-> PutItem(table, item), put |-> TRUE, errors |-> 0,
              exc |-> "none", ret |-> TRUE]
        ELSE [table |-> table, put |-> built, errors |-> 1,
              exc |-> "none", ret |-> FALSE]

\* ------------------------------------------------------------ lambda_handler
Headers ==
    [ContentType |-> "application/json", AccessControlAllowOrigin |-> "*"]

\* json.dumps(obj, cls=DecimalEncoder): the JSON text of a dict, or TypeError when
\* a value is not JSON serializable (a complex number).
Serializable(v) == v.t # "complex"

JsonDumps(obj) ==
    IF \A k \in DOMAIN obj : Serializable(obj[k])
    THEN Return([t |-> "json", v |-> obj])
    ELSE Raise("TypeError", "Object of type complex is not JSON serializable")

ErrorResponse(status, message) ==
    [statusCode |-> status, headers |-> Headers,
     body |-> JsonDumps([error |-> Str(message)]).val]

\* f"calc-{int(time.time() * 1000)}"
GeneratedId(ms) == [t |-> "str", s |-> "calc-", ms |-> ms]

\* ValueError and its subclasses (json.JSONDecodeError is one).
IsValueError(cls) == cls \in {"ValueError", "JSONDecodeError"}

Called(i, what) == calls' = [calls EXCEPT ![i] = Append(@, what)]

\* Mutant: the request is counted only once its body has parsed.
Invoke_CountParsed(i, e) ==
    /\ pc[i] = "idle"
    /\ event' = [event EXCEPT ![i] = e]
    /\ frame' = [frame EXCEPT ![i].start_time = now]
    /\ REQUEST_COUNT' = IF e.kind = "json" THEN REQUEST_COUNT + 1 ELSE REQUEST_COUNT
    /\ Called(i, "REQUEST_COUNT.inc")
    /\ pc' = [pc EXCEPT ![i] = "acquire"]
    /\ UNCHANGED <<exporter, now, REQUEST_LATENCY, CALCULATION_ERRORS, ACTIVE_REQUESTS, table,
                   exc, response>>

\* lines 91-92: start_time = time.time(); REQUEST_COUNT.inc()
Invoke(i, e) ==
    /\ pc[i] = "idle"
    /\ event' = [event EXCEPT ![i] = e]
    /\ frame' = [frame EXCEPT ![i].start_time = now]
    /\ REQUEST_COUNT' = REQUEST_COUNT + 1
    /\ Called(i, "REQUEST_COUNT.inc")
    /\ pc' = [pc EXCEPT ![i] = "acquire"]
    /\ UNCHANGED <<exporter, now, REQUEST_LATENCY, CALCULATION_ERRORS, ACTIVE_REQUESTS, table,
                   exc, response>>

\* line 93: ACTIVE_REQUESTS.inc()
Acquire(i) ==
    /\ pc[i] = "acquire"
    /\ ACTIVE_REQUESTS' = ACTIVE_REQUESTS + 1
    /\ Called(i, "ACTIVE_REQUESTS.inc")
    /\ pc' = [pc EXCEPT ![i] = "parse"]
    /\ UNCHANGED <<exporter, now, REQUEST_COUNT, REQUEST_LATENCY, CALCULATION_ERRORS, table,
                   event, frame, exc, response>>

\* json.loads(event['body'])
JsonLoads(e) ==
    CASE e.kind = "json" -> Return(e.payload)
      [] e.kind = "malformed" -> Raise("JSONDecodeError", "Expecting value: line 1 column 1 (char 0)")
      [] OTHER -> Raise("TypeError", "the JSON object must be str, bytes or bytearray, not NoneType")

\* Mutant: "and" for "or".
Invalid_And(operation, operands) == Falsy(operation) /\ Falsy(operands)

\* line 107: not operation or not operands
Invalid(operation, operands) == Falsy(operation) \/ Falsy(operands)

\* lines 96-117: parse the body, read the fields, validate
Parse(i) ==
    /\ pc[i] = "parse"
    /\ LET body == JsonLoads(event[i])
           operation == Get(body.val, "operation", None)
           operands == Get(body.val, "operands", List(<<>>))
           calc_id == Get(body.val, "id", GeneratedId(now))
       IN  IF body.exc # "none"
           THEN /\ exc' = [exc EXCEPT ![i] = body]
                /\ pc' = [pc EXCEPT ![i] = "except"]
                /\ UNCHANGED <<frame, response>>
           ELSE /\ frame' = [frame EXCEPT ![i].operation = operation,
                                          ![i].operands = operands,
                                          ![i].calc_id = calc_id]
                /\ IF Invalid(operation, operands)
                   THEN /\ response' = [response EXCEPT ![i] =
                               ErrorResponse(400, "Missing operation or operands")]
                        /\ pc' = [pc EXCEPT ![i] = "finally"]
                   ELSE /\ pc' = [pc EXCEPT ![i] = "compute"]
                        /\ UNCHANGED response
                /\ UNCHANGED exc
    /\ UNCHANGED <<exporter, now, metrics, table, event, calls>>

\* Mutant: operation and operands are module-level variables, so a request computes
\* on the ones the first invocation parsed.
Compute_SharedOperands(i) ==
    /\ pc[i] = "compute"
    /\ LET src == IF frame[1].operands # None THEN 1 ELSE i
           r == perform_calculation(frame[src].operation, frame[src].operands)
       IN  IF r.exc # "none"
           THEN /\ exc' = [exc EXCEPT ![i] = r]
                /\ pc' = [pc EXCEPT ![i] = "except"]
                /\ UNCHANGED frame
           ELSE /\ frame' = [frame EXCEPT ![i].result = r.val,
                                          ![i].execution_time = now - frame[i].start_time]
                /\ pc' = [pc EXCEPT ![i] = "store"]
                /\ UNCHANGED exc
    /\ Called(i, "perform_calculation")
    /\ UNCHANGED <<exporter, now, metrics, table, event, response>>

\* lines 120-123: result = perform_calculation(...); execution_time
Compute(i) ==
    /\ pc[i] = "compute"
    /\ LET r == perform_calculation(frame[i].operation, frame[i].operands)
       IN  IF r.exc # "none"
           THEN /\ exc' = [exc EXCEPT ![i] = r]
                /\ pc' = [pc EXCEPT ![i] = "except"]
                /\ UNCHANGED frame
           ELSE /\ frame' = [frame EXCEPT ![i].result = r.val,
                                          ![i].execution_time = now - frame[i].start_time]
                /\ pc' = [pc EXCEPT ![i] = "store"]
                /\ UNCHANGED exc
    /\ Called(i, "perform_calculation")
    /\ UNCHANGED <<exporter, now, metrics, table, event, response>>

\* line 126: store_calculation(calc_id, operation, operands, result, execution_time)
Store(i) ==
    /\ pc[i] = "store"
    /\ \E put_ok \in BOOLEAN :
         LET f == frame[i]
             out == store_calculation(f.calc_id, f.operation, f.operands, f.result,
                                      f.execution_time, put_ok)
         IN  /\ table' = out.table
             /\ CALCULATION_ERRORS' = CALCULATION_ERRORS + out.errors
             /\ calls' = [calls EXCEPT ![i] =
                    @ \o (IF out.put THEN <<"table.put_item">> ELSE <<>>)
                      \o (IF out.errors = 1 THEN <<"CALCULATION_ERRORS.inc">> ELSE <<>>)]
             /\ IF out.exc # "none"
                THEN /\ exc' = [exc EXCEPT ![i] = Raise(out.exc, "DynamoDB error")]
                     /\ pc' = [pc EXCEPT ![i] = "except"]
                ELSE /\ pc' = [pc EXCEPT ![i] = "observe"]
                     /\ UNCHANGED exc
    /\ UNCHANGED <<exporter, now, REQUEST_COUNT, REQUEST_LATENCY, ACTIVE_REQUESTS, event, frame,
                   response>>

\* line 129: REQUEST_LATENCY.observe(time.time() - start_time)
Observe(i) ==
    /\ pc[i] = "observe"
    /\ REQUEST_LATENCY' = [count |-> REQUEST_LATENCY.count + 1,
                           sum |-> REQUEST_LATENCY.sum + (now - frame[i].start_time)]
    /\ Called(i, "REQUEST_LATENCY.observe")
    /\ pc' = [pc EXCEPT ![i] = "respond"]
    /\ UNCHANGED <<exporter, now, REQUEST_COUNT, CALCULATION_ERRORS, ACTIVE_REQUESTS, table,
                   event, frame, exc, response>>

\* lines 132-149: build the response and return it
Respond(i) ==
    /\ pc[i] = "respond"
    /\ LET f == frame[i]
           body == JsonDumps([calculation_id |-> f.calc_id,
                              operation |-> f.operation,
                              operands |-> f.operands,
                              result |-> f.result,
                              execution_time_ms |-> IntNum(f.execution_time),
                              timestamp |-> IntNum(now)])
       IN  IF body.exc # "none"
           THEN /\ exc' = [exc EXCEPT ![i] = body]
                /\ pc' = [pc EXCEPT ![i] = "except"]
                /\ UNCHANGED response
           ELSE /\ response' = [response EXCEPT ![i] =
                       [statusCode |-> 200, headers |-> Headers, body |-> body.val]]
                /\ pc' = [pc EXCEPT ![i] = "finally"]
                /\ UNCHANGED exc
    /\ Called(i, "json.dumps")
    /\ UNCHANGED <<exporter, now, metrics, table, event, frame>>

\* Mutant: a request whose body or operands were refused is parsed again.
ExceptValueError_Retry(i) ==
    /\ pc[i] = "except"
    /\ IsValueError(exc[i].exc)
    /\ CALCULATION_ERRORS' = CALCULATION_ERRORS + 1
    /\ Called(i, "CALCULATION_ERRORS.inc")
    /\ response' = [response EXCEPT ![i] = ErrorResponse(400, exc[i].msg)]
    /\ pc' = [pc EXCEPT ![i] = "parse"]
    /\ UNCHANGED <<exporter, now, REQUEST_COUNT, REQUEST_LATENCY, ACTIVE_REQUESTS, table, event,
                   frame, exc>>

\* lines 151-163: except ValueError as e
ExceptValueError(i) ==
    /\ pc[i] = "except"
    /\ IsValueError(exc[i].exc)
    /\ CALCULATION_ERRORS' = CALCULATION_ERRORS + 1
    /\ Called(i, "CALCULATION_ERRORS.inc")
    /\ response' = [response EXCEPT ![i] = ErrorResponse(400, exc[i].msg)]
    /\ pc' = [pc EXCEPT ![i] = "finally"]
    /\ UNCHANGED <<exporter, now, REQUEST_COUNT, REQUEST_LATENCY, ACTIVE_REQUESTS, table, event,
                   frame, exc>>

\* lines 164-176: except Exception as e
ExceptException(i) ==
    /\ pc[i] = "except"
    /\ ~IsValueError(exc[i].exc)
    /\ CALCULATION_ERRORS' = CALCULATION_ERRORS + 1
    /\ Called(i, "CALCULATION_ERRORS.inc")
    /\ response' = [response EXCEPT ![i] = ErrorResponse(500, "Internal server error")]
    /\ pc' = [pc EXCEPT ![i] = "finally"]
    /\ UNCHANGED <<exporter, now, REQUEST_COUNT, REQUEST_LATENCY, ACTIVE_REQUESTS, table, event,
                   frame, exc>>

\* Mutant: the gauge is not released when the handler caught an exception.
Finally_SuccessOnly(i) ==
    /\ pc[i] = "finally"
    /\ ACTIVE_REQUESTS' = IF exc[i].exc = "none" THEN ACTIVE_REQUESTS - 1 ELSE ACTIVE_REQUESTS
    /\ Called(i, "ACTIVE_REQUESTS.dec")
    /\ pc' = [pc EXCEPT ![i] = "done"]
    /\ UNCHANGED <<exporter, now, REQUEST_COUNT, REQUEST_LATENCY, CALCULATION_ERRORS, table,
                   event, frame, exc, response>>

\* lines 177-178: finally: ACTIVE_REQUESTS.dec(); the response is returned
Finally(i) ==
    /\ pc[i] = "finally"
    /\ ACTIVE_REQUESTS' = ACTIVE_REQUESTS - 1
    /\ Called(i, "ACTIVE_REQUESTS.dec")
    /\ pc' = [pc EXCEPT ![i] = "done"]
    /\ UNCHANGED <<exporter, now, REQUEST_COUNT, REQUEST_LATENCY, CALCULATION_ERRORS, table,
                   event, frame, exc, response>>

\* One invocation of the handler, on any event.
Next ==
    \/ Tick
    \/ \E e \in Events : Invoke(1, e)
    \/ Acquire(1)
    \/ Parse(1)
    \/ Compute(1)
    \/ Store(1)
    \/ Observe(1)
    \/ Respond(1)
    \/ ExceptValueError(1)
    \/ ExceptException(1)
    \/ Finally(1)

Spec == Init /\ [][Next]_vars

\* Concurrent invocations within one millisecond of the clock, sharing the metrics
\* and the table, each on one of a few events that between them take every path
\* through the handler: a missing field, successes with a generated and with a
\* supplied id, an engine error, the other kinds of exception, and a body that
\* is not JSON.
Request(operation, operands, id) ==
    [kind |-> "json",
     payload |-> [operation |-> operation, operands |-> List(operands), id |-> id]]

ConcurrentEvents ==
    {Request(Absent, <<IntNum(2), IntNum(2)>>, Absent),
     Request(Str("add"), <<IntNum(2), IntNum(2)>>, Absent),
     Request(Str("multiply"), <<IntNum(2), IntNum(0)>>, Absent),
     Request(Str("add"), <<IntNum(2), IntNum(2)>>, Str("id-1")),
     Request(Str("multiply"), <<IntNum(2), IntNum(0)>>, Str("id-1")),
     Request(Str("divide"), <<IntNum(2), IntNum(0)>>, Str("id-1")),
     Request(Str("modulo"), <<IntNum(2), IntNum(0)>>, Absent),
     Request(Str("power"), <<IntNum(-1), Num(1, 2)>>, Absent),
     [kind |-> "malformed"]}

NextConcurrent ==
    \/ \E i \in Invocations :
        \/ \E e \in ConcurrentEvents : Invoke(i, e)
        \/ Acquire(i)
        \/ Parse(i)
        \/ Compute(i)
        \/ Store(i)
        \/ Observe(i)
        \/ Respond(i)
        \/ ExceptValueError(i)
        \/ ExceptException(i)
        \/ Finally(i)

SpecConcurrent == Init /\ [][NextConcurrent]_vars

\* The steps of one invocation once it has started.
HandlerStep(i) ==
    \/ Acquire(i)
    \/ Parse(i)
    \/ Compute(i)
    \/ Store(i)
    \/ Observe(i)
    \/ Respond(i)
    \/ ExceptValueError(i)
    \/ ExceptException(i)
    \/ Finally(i)

\* One event for each way through the handler: a missing field, a success, an
\* engine error, a result json.dumps refuses, and a body that is not JSON.
LiveEvents ==
    {Request(Absent, <<IntNum(2), IntNum(2)>>, Absent),
     Request(Str("add"), <<IntNum(2), IntNum(2)>>, Str("id-1")),
     Request(Str("divide"), <<IntNum(2), IntNum(0)>>, Str("id-1")),
     Request(Str("power"), <<IntNum(-1), Num(1, 2)>>, Absent),
     [kind |-> "malformed"]}

NextLive ==
    \E i \in Invocations :
        \/ \E e \in LiveEvents : Invoke(i, e)
        \/ HandlerStep(i)

\* The runtime runs every started invocation to the end of the handler: no step of
\* the handler waits on another invocation, and none is terminated by force.
SpecLive ==
    /\ Init
    /\ [][NextLive]_vars
    /\ \A i \in Invocations : WF_vars(HandlerStep(i))

\* A direct call perform_calculation(operation, operands), as the unit tests make
\* it: the caller's arguments are kept in event[i], the callee's view of operands
\* after the call in frame[i], and what the call gave in exc[i].  No statement of
\* lines 31-62 assigns to an element of operands: result is rebound by +=, -=,
\* *=, /= on numbers, and operands[1:] is a copy.
OperandsAfter(operation, operands) == operands

EngineOperations == Operations \cup {Str("unknown"), Str("")}

EngineOperandLists == UNION {[1..n -> Numbers] : n \in 0..EngineMaxLen}

Call(i, operation, operands) ==
    /\ pc[i] = "idle"
    /\ LET r == perform_calculation(operation, operands)
       IN  /\ event' = [event EXCEPT ![i] =
                   [kind |-> "call", operation |-> operation, operands |-> operands]]
           /\ frame' = [frame EXCEPT ![i].operation = operation,
                                     ![i].operands = OperandsAfter(operation, operands),
                                     ![i].result = r.val]
           /\ exc' = [exc EXCEPT ![i] = r]
    /\ Called(i, "perform_calculation")
    /\ pc' = [pc EXCEPT ![i] = "returned"]
    /\ UNCHANGED <<exporter, now, metrics, table, response>>

NextEngine ==
    \E operation \in EngineOperations, xs \in EngineOperandLists :
        Call(1, operation, List(xs))

SpecEngine == Init /\ [][NextEngine]_vars

\* ------------------------------------------------------- metrics_exporter.py
\* The runs of the exporter's lambda_handler in one process, one after the other.
\* A query that has a datapoint reports the number of the run: gauge.set only
\* stores the value, so the value of a gauge tells which run set it.
Datapoint(run) == run

HandlerUnchanged ==
    UNCHANGED <<now, metrics, table, pc, event, frame, exc, response, calls>>

\* lines 101-106 and 30-33: a run starts; metrics = {}
StartExport ==
    /\ exporter.at = "idle"
    /\ exporter.runs < MaxRuns
    /\ exporter' = [exporter EXCEPT !.at = "query", !.runs = @ + 1, !.metrics = <<>>,
                                    !.log = <<>>, !.response = None]
    /\ HandlerUnchanged

\* Mutant: get_cloudwatch_metrics has no try/except, so a failing query ends the
\* run in the handler's except clause.
GetMetricStatistics_Propagates ==
    /\ exporter.at = "query"
    /\ LET key == MetricKeys[Len(exporter.log) + 1]
           next == IF Len(exporter.log) + 1 = Len(MetricKeys) THEN "set" ELSE "query"
       IN  \/ exporter' = [exporter EXCEPT
                   !.metrics = @ @@ (key :> Datapoint(exporter.runs)),
                   !.log = Append(@, "datapoint"), !.at = next]
           \/ exporter' = [exporter EXCEPT !.log = Append(@, "empty"), !.at = next]
           \/ exporter' = [exporter EXCEPT
                   !.log = Append(@, "raise"), !.at = "idle",
                   !.response = [statusCode |-> 500, body |-> [error |-> "ClientError"]]]
    /\ HandlerUnchanged

\* lines 35-99: the next cloudwatch.get_metric_statistics of the run.  It gives a
\* datapoint (the key is set in metrics), no datapoint, or raises: the except of
\* line 96 logs, and get_cloudwatch_metrics returns the metrics read so far.
GetMetricStatistics ==
    /\ exporter.at = "query"
    /\ LET key == MetricKeys[Len(exporter.log) + 1]
           next == IF Len(exporter.log) + 1 = Len(MetricKeys) THEN "set" ELSE "query"
       IN  \/ exporter' = [exporter EXCEPT
                   !.metrics = @ @@ (key :> Datapoint(exporter.runs)),
                   !.log = Append(@, "datapoint"), !.at = next]
           \/ exporter' = [exporter EXCEPT !.log = Append(@, "empty"), !.at = next]
           \/ exporter' = [exporter EXCEPT !.log = Append(@, "raise"), !.at = "set"]
    /\ HandlerUnchanged

\* lines 109-116: if key in metrics: gauge.set(metrics[key])
SetGauges ==
    /\ exporter.at = "set"
    /\ exporter' = [exporter EXCEPT
           !.registry = [g \in RegisteredGauges |->
               IF \E key \in DOMAIN exporter.metrics : GaugeOf(key) = g
               THEN exporter.metrics[CHOOSE key \in DOMAIN exporter.metrics :
                                         GaugeOf(key) = g]
               ELSE exporter.registry[g]],
           !.at = "push"]
    /\ HandlerUnchanged

\* lines 119-138: push_to_gateway(..., job='calcburst-metrics', registry=registry)
\* replaces the group of the job by every gauge of the registry and the run
\* returns 200 with the metrics; when it raises the run returns 500.
PushToGateway ==
    /\ exporter.at = "push"
    /\ \/ exporter' = [exporter EXCEPT
              !.gateway = [job |-> "calcburst-metrics", samples |-> exporter.registry],
              !.log = Append(@, "pushed"),
              !.response = [statusCode |-> 200,
                            body |-> [message |-> "Metrics exported successfully",
                                      metrics |-> exporter.metrics]],
              !.at = "idle"]
       \/ exporter' = [exporter EXCEPT
              !.log = Append(@, "push raised"),
              !.response = [statusCode |-> 500, body |-> [error |-> "URLError"]],
              !.at = "idle"]
    /\ HandlerUnchanged

NextBridge ==
    \/ StartExport
    \/ GetMetricStatistics
    \/ SetGauges
    \/ PushToGateway

SpecBridge == Init /\ [][NextBridge]_vars

\* ================================================================== claims
Count(s, x) == Cardinality({k \in DOMAIN s : s[k] = x})

\* The position of the first call of that name in a list of calls (0: never called).
FirstCall(s, x) ==
    IF Count(s, x) = 0 THEN 0 ELSE CHOOSE k \in DOMAIN s : s[k] = x /\ \A m \in 1..(k - 1) : s[m] # x

\* Invocation i was started on an event whose body parses to a JSON object.
OnObject(i) == pc[i] # "idle" /\ event[i].kind = "json"

Concluded(i) == pc[i] = "done"

Status(i) == response[i].statusCode

\* The fields the handler reads from the submitted body.
SubmittedOperation(i) == Get(event[i].payload, "operation", None)
SubmittedOperands(i) == Get(event[i].payload, "operands", List(<<>>))

MissingField(i) == Falsy(SubmittedOperation(i)) \/ Falsy(SubmittedOperands(i))

ErrorBody(message) == [t |-> "json", v |-> [error |-> Str(message)]]

\* C1 (as claimed): a concluded request whose operation is one of the six and whose
\* operands are at least 2 numbers on which perform_calculation returns has status
\* 200, the result perform_calculation gives, the operation and operands as
\* submitted, and the caller's id or else calc-<a time of the request in ms>.
C1_SuccessResponse ==
    \A i \in Invocations :
        (/\ Concluded(i)
         /\ OnObject(i)
         /\ SubmittedOperation(i) \in Operations
         /\ Len(SubmittedOperands(i).v) >= 2
         /\ perform_calculation(SubmittedOperation(i), SubmittedOperands(i)).exc = "none")
        => /\ Status(i) = 200
           /\ LET b == response[i].body.v
                  id == event[i].payload.id
              IN  /\ b.result = perform_calculation(SubmittedOperation(i),
                                                    SubmittedOperands(i)).val
                  /\ b.operation = event[i].payload.operation
                  /\ b.operands = event[i].payload.operands
                  /\ IF id # Absent THEN b.calculation_id = id
                     ELSE \E ms \in frame[i].start_time..now :
                              b.calculation_id = GeneratedId(ms)

\* C2: a request whose operation is absent or falsy, or whose operands are absent or
\* empty, never invokes the engine and never writes to the store, and concludes
\* with status 400 and a body {error: <message>}.
C2_MissingFieldRejected ==
    \A i \in Invocations :
        (OnObject(i) /\ MissingField(i))
        => /\ Count(calls[i], "perform_calculation") = 0
           /\ Count(calls[i], "table.put_item") = 0
           /\ table = {}
           /\ Concluded(i) => /\ Status(i) = 400
                              /\ DOMAIN response[i].body.v = {"error"}
                              /\ response[i].body.v.error.t = "str"

C2_Witness ==
    /\ Concluded(1)
    /\ OnObject(1)
    /\ event[1].payload.operation = Absent
    /\ Len(SubmittedOperands(1).v) = 2
    /\ Status(1) = 400

\* The evaluation failures the claims name, stated on the request itself: fewer
\* than 2 operands, an operation outside the enumeration, or a zero divisor met by
\* divide, by modulo or by a negative power.
ZeroDivisor(operation, xs) ==
    \/ operation = Str("divide") /\ \E k \in 2..Len(xs) : IsZero(xs[k])
    \/ operation = Str("modulo") /\ IsZero(xs[2])
    \/ operation = Str("power") /\ IsZero(xs[1]) /\ xs[2].n < 0

EvaluationFails(i) ==
    LET xs == SubmittedOperands(i).v IN
    \/ Len(xs) < 2
    \/ SubmittedOperation(i) \notin Operations
    \/ ZeroDivisor(SubmittedOperation(i), xs)

\* C3 (as claimed): a request that passes validation and whose evaluation fails
\* concludes with status 400 and the body {error: <the engine's message>}.
C3_EvaluationError400 ==
    \A i \in Invocations :
        (Concluded(i) /\ OnObject(i) /\ ~MissingField(i) /\ EvaluationFails(i))
        => /\ Status(i) = 400
           /\ response[i].body = ErrorBody(perform_calculation(SubmittedOperation(i),
                                                               SubmittedOperands(i)).msg)

\* C4 (as claimed): a request in which an exception other than the three engine
\* errors (ValueError raised by perform_calculation) was raised concludes with
\* status 500 and the body {error: "Internal server error"}.
C4_UnexpectedError500 ==
    \A i \in Invocations :
        (Concluded(i) /\ exc[i].exc \notin {"none", "ValueError"})
        => /\ Status(i) = 500
           /\ response[i].body = ErrorBody("Internal server error")

\* C5: store_calculation returns to the handler whether or not the write succeeds,
\* put_item is called at most once per request, and two requests on the same event
\* conclude with the same status and the same result whatever became of their
\* store writes.
C5_StoreFailureAbsorbed ==
    \A i \in Invocations :
        /\ Count(calls[i], "table.put_item") <= 1
        /\ pc[i] = "observe" => exc[i] = NoException
        /\ \A j \in Invocations :
               (Concluded(i) /\ Concluded(j) /\ event[i] = event[j])
               => /\ Status(i) = Status(j)
                  /\ Status(i) = 200 => response[i].body.v.result = response[j].body.v.result

\* Two requests on the same event, one whose write failed and one whose write
\* succeeded, both concluded with status 200.
C5_Witness ==
    \E i, j \in Invocations :
        /\ Concluded(i) /\ Concluded(j)
        /\ event[i] = event[j]
        /\ Status(i) = 200 /\ Status(j) = 200
        /\ Count(calls[i], "table.put_item") = 1 /\ Count(calls[j], "table.put_item") = 1
        /\ Count(calls[i], "CALCULATION_ERRORS.inc") = 1
        /\ Count(calls[j], "CALCULATION_ERRORS.inc") = 0

\* C6: put_item is called only by a request that passed validation and whose
\* evaluation returned a result; a request that fails validation or evaluation
\* leaves the table and the latency histogram as they were.
C6_NoStoreOnFailure ==
    \A i \in Invocations :
        /\ Count(calls[i], "table.put_item") > 0
           => OnObject(i) /\ ~MissingField(i) /\ ~EvaluationFails(i)
        /\ (OnObject(i) /\ (MissingField(i) \/ EvaluationFails(i)))
           => /\ table = {}
              /\ REQUEST_LATENCY = [count |-> 0, sum |-> 0]
              /\ Count(calls[i], "table.put_item") = 0

\* A request that passed validation and failed in the engine has concluded: the
\* table is empty and the error counter has grown.
C6_Witness ==
    /\ Concluded(1)
    /\ OnObject(1)
    /\ ~MissingField(1)
    /\ EvaluationFails(1)
    /\ Status(1) = 400
    /\ CALCULATION_ERRORS = 1
    /\ table = {}

\* The requests that have incremented the gauge and not yet decremented it.
InFlight ==
    {i \in Invocations :
        pc[i] \in {"parse", "compute", "store", "observe", "respond", "except", "finally"}}

\* C7: the in-flight gauge equals the number of requests between their increment
\* and their decrement, is never negative, is 0 when no request is in progress, and
\* each concluded request has incremented it once and decremented it once.
C7_GaugeBalanced ==
    /\ ACTIVE_REQUESTS = Cardinality(InFlight)
    /\ ACTIVE_REQUESTS >= 0
    /\ (\A i \in Invocations : pc[i] \in {"idle", "done"}) => ACTIVE_REQUESTS = 0
    /\ \A i \in Invocations :
           Concluded(i) => /\ Count(calls[i], "ACTIVE_REQUESTS.inc") = 1
                           /\ Count(calls[i], "ACTIVE_REQUESTS.dec") = 1

\* One request has concluded with status 500 while another, started before the
\* first concluded, is still in flight: the gauge stands at 1.
C7_Witness ==
    \E i, j \in Invocations :
        /\ Concluded(i) /\ Status(i) = 500
        /\ j \in InFlight /\ pc[j] = "store"
        /\ ACTIVE_REQUESTS = 1

\* A persistence failure of request i: its evaluation returned a result and the
\* table holds no item under its calculation_id.
PersistenceFailed(i) ==
    /\ frame[i].result # None
    /\ pc[i] \in {"observe", "respond", "except", "finally", "done"}
    /\ ~\E item \in table : item.calculation_id = frame[i].calc_id

\* C8 (as claimed): a concluded request that failed (a status other than 200, or a
\* persistence failure) has incremented the error counter exactly once.
C8_ErrorCountedOnce ==
    \A i \in Invocations :
        (Concluded(i) /\ (Status(i) # 200 \/ PersistenceFailed(i)))
        => Count(calls[i], "CALCULATION_ERRORS.inc") = 1

\* C9 (as claimed): every concluded request has recorded exactly one latency
\* observation, after its store write attempt and before its response was built.
C9_LatencyObservedOnce ==
    \A i \in Invocations :
        Concluded(i)
        => /\ Count(calls[i], "REQUEST_LATENCY.observe") = 1
           /\ FirstCall(calls[i], "table.put_item")
                  < FirstCall(calls[i], "REQUEST_LATENCY.observe")
           /\ FirstCall(calls[i], "REQUEST_LATENCY.observe")
                  < FirstCall(calls[i], "json.dumps")

\* C10: the request counter equals the number of requests received so far, each
\* request's first call is its one increment of the counter (before its body is
\* parsed and validated), and n concluded requests have grown it by n.
C10_RequestCounted ==
    /\ REQUEST_COUNT = Cardinality({i \in Invocations : pc[i] # "idle"})
    /\ \A i \in Invocations :
           pc[i] # "idle" => /\ calls[i][1] = "REQUEST_COUNT.inc"
                             /\ Count(calls[i], "REQUEST_COUNT.inc") = 1
    /\ (\A i \in Invocations : Concluded(i)) => REQUEST_COUNT = MaxInvocations

\* Every request has concluded, one of them on a body that did not parse, another
\* with status 200.
C10_Witness ==
    /\ \A i \in Invocations : Concluded(i)
    /\ \E i \in Invocations : event[i].kind # "json" /\ Status(i) # 200
    /\ \E i \in Invocations : Status(i) = 200
    /\ REQUEST_COUNT = MaxInvocations

\* C11 (as claimed): a record in the store is never changed or removed by a later
\* or concurrent request (no record expires within the run).
C11_RecordNeverUpdated == [][\A item \in table : item \in table']_vars

\* The status a request on event e gets when it is the only one handled.
AloneStatus(e) ==
    IF e.kind = "malformed" THEN 400
    ELSE IF e.kind # "json" THEN 500
    ELSE LET operation == Get(e.payload, "operation", None)
             operands == Get(e.payload, "operands", List(<<>>))
             r == perform_calculation(operation, operands)
         IN  IF Falsy(operation) \/ Falsy(operands) THEN 400
             ELSE IF r.exc = "ValueError" THEN 400
             ELSE IF r.exc # "none" THEN 500
             ELSE IF r.val.t = "complex" THEN 500
             ELSE 200

\* C12: in every interleaving each request works on the operation, operands and id
\* of its own event, and concludes with the status and result it gets when run
\* alone.
C12_NoCrossRequestLeak ==
    \A i \in Invocations :
        /\ (OnObject(i) /\ pc[i] \notin {"acquire", "parse"})
           => /\ frame[i].operation = SubmittedOperation(i)
              /\ frame[i].operands = SubmittedOperands(i)
              /\ event[i].payload.id # Absent => frame[i].calc_id = event[i].payload.id
        /\ frame[i].result # None
           => frame[i].result = perform_calculation(SubmittedOperation(i),
                                                    SubmittedOperands(i)).val
        /\ Concluded(i)
           => /\ Status(i) = AloneStatus(event[i])
              /\ Status(i) = 200
                 => /\ response[i].body.v.result = frame[i].result
                    /\ response[i].body.v.operation = SubmittedOperation(i)
                    /\ response[i].body.v.operands = SubmittedOperands(i)
                    /\ response[i].body.v.calculation_id = frame[i].calc_id

\* Two requests under the same calculation_id that ran side by side with different
\* operations have each built a 200 response with its own result.
C12_Witness ==
    \E i, j \in Invocations :
        /\ pc[i] = "finally" /\ pc[j] = "finally"
        /\ Status(i) = 200 /\ Status(j) = 200
        /\ frame[i].calc_id = frame[j].calc_id
        /\ response[i].body.v.result = IntNum(4)
        /\ response[j].body.v.result = IntNum(0)

\* The state of a request in the life cycle RECEIVED, VALIDATED, COMPUTED,
\* PERSISTED, RESPONDED | ERRORED, read from the handler's position.
Stage(i) ==
    CASE pc[i] = "idle" -> "NONE"
      [] pc[i] \in {"acquire", "parse"} -> "RECEIVED"
      [] pc[i] = "compute" -> "VALIDATED"
      [] pc[i] = "store" -> "COMPUTED"
      [] pc[i] \in {"observe", "respond"} ->
            IF Count(calls[i], "table.put_item") = 1
               /\ Count(calls[i], "CALCULATION_ERRORS.inc") = 0
            THEN "PERSISTED" ELSE "COMPUTED"
      [] pc[i] = "except" -> "ERRORED"
      [] OTHER -> IF response[i].statusCode = 200 THEN "RESPONDED" ELSE "ERRORED"

Rank(stage) ==
    CASE stage = "NONE" -> 0
      [] stage = "RECEIVED" -> 1
      [] stage = "VALIDATED" -> 2
      [] stage = "COMPUTED" -> 3
      [] stage = "PERSISTED" -> 4
      [] OTHER -> 5

\* One step of the system keeps request i in the order of the life cycle.
InOrder(i) ==
    /\ Rank(Stage(i)') >= Rank(Stage(i))
    /\ Rank(Stage(i)) = 5 => Stage(i)' = Stage(i)
    /\ (Stage(i)' = "VALIDATED" /\ Stage(i) # "VALIDATED") => Stage(i) = "RECEIVED"
    /\ (Stage(i)' = "COMPUTED" /\ Stage(i) # "COMPUTED") => Stage(i) = "VALIDATED"
    /\ (Stage(i)' = "PERSISTED" /\ Stage(i) # "PERSISTED") => Stage(i) = "COMPUTED"
    /\ (Stage(i)' = "RESPONDED" /\ Stage(i) # "RESPONDED")
       => Stage(i) \in {"COMPUTED", "PERSISTED"}
    /\ Count(calls[i]', "table.put_item") > Count(calls[i], "table.put_item")
       => /\ Stage(i) = "COMPUTED"
          /\ frame[i].result # None
          /\ Count(calls[i], "perform_calculation") = 1
    /\ response[i]' # response[i] => response[i] = None

Returned(i) == pc[i] = "returned"

CallOperation(i) == event[i].operation
CallOperands(i) == event[i].operands.v

\* The fold ((xs[1] op xs[2]) op xs[3]) ... over the first k operands.
RECURSIVE LeftFold(_, _, _)
LeftFold(operation, xs, k) ==
    IF k = 1 THEN xs[1]
    ELSE LET acc == LeftFold(operation, xs, k - 1)
         IN  CASE operation = Str("add") -> PyAdd(acc, xs[k])
               [] operation = Str("subtract") -> PySub(acc, xs[k])
               [] operation = Str("multiply") -> PyMul(acc, xs[k])
               [] operation = Str("divide") -> PyTrueDiv(acc, xs[k])

\* C14: a divide of two or more operands raises the division-by-zero error exactly
\* when an operand after the first is zero, wherever it stands and whatever the
\* first operand is; it then gives no result; otherwise it gives the left fold of /.
C14_DivideByZero ==
    \A i \in Invocations :
        (Returned(i) /\ CallOperation(i) = Str("divide") /\ Len(CallOperands(i)) >= 2)
        => LET xs == CallOperands(i)
               zero == \E k \in 2..Len(xs) : IsZero(xs[k])
           IN  /\ exc[i].exc # "none" <=> zero
               /\ zero => /\ exc[i] = Raise("ValueError", "Division by zero")
                          /\ frame[i].result = None
               /\ ~zero => exc[i] = Return(LeftFold(Str("divide"), xs, Len(xs)))

\* divide [2, 1/2, 0] was refused although the first division had been made.
C14_Witness ==
    /\ Returned(1)
    /\ CallOperation(1) = Str("divide")
    /\ CallOperands(1) = <<IntNum(2), Num(1, 2), IntNum(0)>>
    /\ exc[1].msg = "Division by zero"

\* C15: add, subtract and multiply of two or more integers return the left fold of
\* +, - and * from operands[0], and leave the operands as they were passed.
C15_LeftFold ==
    \A i \in Invocations :
        (/\ Returned(i)
         /\ CallOperation(i) \in {Str("add"), Str("subtract"), Str("multiply")}
         /\ Len(CallOperands(i)) >= 2
         /\ \A k \in DOMAIN CallOperands(i) : IsIntegral(CallOperands(i)[k]))
        => /\ exc[i] = Return(LeftFold(CallOperation(i), CallOperands(i),
                                       Len(CallOperands(i))))
           /\ frame[i].operands = event[i].operands

\* subtract [-1, 0, 2] returned (-1 - 0) - 2 = -3, where -1 - (0 - 2) is 1.
C15_Witness ==
    /\ Returned(1)
    /\ CallOperation(1) = Str("subtract")
    /\ CallOperands(1) = <<IntNum(-1), IntNum(0), IntNum(2)>>
    /\ frame[1].result = IntNum(-3)

\* C16: power and modulo of two or more operands give operands[0] ** operands[1]
\* and operands[0] % operands[1]: the operands from index 2 on neither change
\* what the call gives nor make it fail.
C16_StrictlyBinary ==
    \A i \in Invocations :
        (/\ Returned(i)
         /\ CallOperation(i) \in {Str("power"), Str("modulo")}
         /\ Len(CallOperands(i)) >= 2)
        => LET xs == CallOperands(i)
           IN  /\ CallOperation(i) = Str("power") => exc[i] = PyPow(xs[1], xs[2])
               /\ CallOperation(i) = Str("modulo") => exc[i] = PyMod(xs[1], xs[2])
               /\ exc[i] = perform_calculation(CallOperation(i), List(SubSeq(xs, 1, 2)))

\* power [2, 2, 0] returned 4.
C16_Witness ==
    /\ Returned(1)
    /\ CallOperation(1) = Str("power")
    /\ CallOperands(1) = <<IntNum(2), IntNum(2), IntNum(0)>>
    /\ exc[1] = Return(IntNum(4))

\* C17: with fewer than two operands the call raises the insufficient-operands
\* error whatever the operation name is; with two or more operands and a name
\* outside the six operations it raises the unsupported-operation error.
C17_OperandCountFirst ==
    \A i \in Invocations :
        Returned(i)
        => /\ Len(CallOperands(i)) < 2
              => exc[i] = Raise("ValueError", "At least two operands required")
           /\ (Len(CallOperands(i)) >= 2 /\ CallOperation(i) \notin Operations)
              => exc[i] = Raise("ValueError",
                                "Unsupported operation: " \o CallOperation(i).s)

\* An unsupported operation with one operand was refused for its operand count.
C17_Witness ==
    /\ Returned(1)
    /\ CallOperation(1) = Str("unknown")
    /\ Len(CallOperands(1)) = 1
    /\ exc[1].msg = "At least two operands required"

\* The request's store write succeeded.
Persisted(i) ==
    /\ Count(calls[i], "table.put_item") = 1
    /\ Count(calls[i], "CALCULATION_ERRORS.inc") = 0

\* The response body b carries the fields of the record item, the numbers plain
\* in the body and decimals in the record.
Mirrors(b, item) ==
    /\ b.calculation_id = item.calculation_id
    /\ b.operation = item.operation
    /\ item.operands = [k \in DOMAIN b.operands.v |-> DecimalOfStr(b.operands.v[k]).val]
    /\ item.result = DecimalOfStr(b.result).val

\* C20 (as claimed): a request that ends with status 200 after a successful store
\* write returns the calculation_id, operation, operands, result and timestamp of
\* the record it wrote, and the record's ttl is its creation time in epoch seconds
\* plus 2,592,000.
C20_ResponseMirrorsRecord ==
    \A i \in Invocations :
        (Concluded(i) /\ Status(i) = 200 /\ Persisted(i))
        => \E item \in table :
              /\ Mirrors(response[i].body.v, item)
              /\ response[i].body.v.timestamp = IntNum(item.timestamp)
              /\ item.ttl = (item.timestamp \div 1000) + TTL_SECONDS

\* The exporter's run has returned.
RunConcluded == exporter.at = "idle" /\ exporter.runs > 0

\* The gauges the four series are written to.
SeriesGauges == {GaugeOf(MetricKeys[k]) : k \in DOMAIN MetricKeys}

\* C18 (as claimed): a run of the exporter changes a gauge only to the datapoint
\* its series had in that run, a gauge whose series had none keeps the value an
\* earlier run set, and what a run pushes under job calcburst-metrics is exactly
\* the four gauges of the four series.
C18_FourGaugesPushed ==
    [][/\ \A k \in DOMAIN MetricKeys :
            LET g == GaugeOf(MetricKeys[k])
            IN  exporter'.registry[g] # exporter.registry[g]
                => /\ MetricKeys[k] \in DOMAIN exporter.metrics
                   /\ exporter'.registry[g] = exporter.metrics[MetricKeys[k]]
       /\ exporter'.gateway # exporter.gateway
          => /\ exporter'.gateway.job = "calcburst-metrics"
             /\ DOMAIN exporter'.gateway.samples = SeriesGauges
             /\ \A g \in SeriesGauges :
                   exporter'.gateway.samples[g] = exporter.registry[g]]_vars

\* C19: a query that raises is absorbed: the series that had a datapoint before it
\* are in metrics and their gauges are set, the push is attempted all the same,
\* and the run returns 200 when the push succeeds and 500 exactly when it fails.
C19_QueryFailureAbsorbed ==
    RunConcluded
    => LET log == exporter.log
           last == log[Len(log)]
       IN  /\ Len(log) >= 2
           /\ last \in {"pushed", "push raised"}
           /\ \A k \in 1..(Len(log) - 1) :
                 /\ log[k] \in {"datapoint", "empty", "raise"}
                 /\ log[k] = "raise" => k = Len(log) - 1
                 /\ log[k] = "datapoint"
                    <=> /\ MetricKeys[k] \in DOMAIN exporter.metrics
                        /\ exporter.registry[GaugeOf(MetricKeys[k])] = Datapoint(exporter.runs)
           /\ \A k \in DOMAIN MetricKeys :
                 k >= Len(log) => MetricKeys[k] \notin DOMAIN exporter.metrics
           /\ exporter.response.statusCode = 200 <=> last = "pushed"
           /\ exporter.response.statusCode = 500 <=> last = "push raised"
           /\ last = "pushed"
              => /\ exporter.gateway.samples = exporter.registry
                 /\ exporter.response.body.metrics = exporter.metrics

\* In its second run the exporter read invocations, the errors query raised, and
\* the run pushed and returned 200 with the invocations gauge set by this run and
\* the errors gauge still as the first run set it.
C19_Witness ==
    /\ RunConcluded
    /\ exporter.runs = 2
    /\ exporter.log = <<"datapoint", "raise", "pushed">>
    /\ exporter.response.statusCode = 200
    /\ exporter.gateway.samples["calcburst_lambda_invocations"] = 2
    /\ exporter.gateway.samples["calcburst_lambda_errors"] = 1

\* C21 (as claimed): in every state, under any interleaving, the request counter
\* equals the number of concluded requests plus the in-flight gauge, and the error
\* counter does not exceed the request counter (both counters start at 0).
C21_MetricsConservation ==
    /\ REQUEST_COUNT = Cardinality({i \in Invocations : Concluded(i)}) + ACTIVE_REQUESTS
    /\ CALCULATION_ERRORS <= REQUEST_COUNT

====
